---------------------------- MODULE Spec2Model ----------------------------
(***************************************************************************)
(* A model of artiq/compiler/targets.py: RunTool (the scoped runner of     *)
(* external tools), _dump (the debugging artifact writer) and Target       *)
(* (compile, link, compile_and_link, strip, symbolize).                    *)
(*                                                                         *)
(* Python str values are sequences of one-character strings, bytes values  *)
(* are sequences of integers.  The target modelled is OR1KTarget.          *)
(* The two diagnostic lines that _dump and ARTIQ_DUMP_SIG print on stderr  *)
(* are not part of the state.                                              *)
(***************************************************************************)
EXTENDS Integers, Sequences, FiniteSets, TLC

VARIABLES
    pc,        \* position of the single thread of control
    op,        \* the API call in progress: its name, arguments and environment
    ret,       \* what the call hands back to its caller: a value or an exception
    disk,      \* the temporary directory: file name -> content
    files,     \* RunTool.files: the names of the NamedTemporaryFiles, in order
    results,   \* the dict RunTool.__enter__ returned (tempfiles and __stdout__)
    spawned,   \* the command lines given to subprocess.Popen during this call
    proc,      \* what the last external process did
    dumps,     \* the artifacts _dump wrote during this call
    stages,    \* the steps this call executed, in order
    objects,   \* the objects argument of link (compile_and_link: compiled so far)
    init_fn    \* the init_fn argument of link

vars == <<pc, op, ret, disk, files, results, spawned, proc, dumps, stages,
          objects, init_fn>>

----------------------------------------------------------------------------
(* Bounds of the model                                                     *)

\* the longest module list given to compile_and_link
MaxModules == 2
\* the longest object list given to link directly
MaxObjects == 2
\* the most address-less (inlined) records the resolver emits for one query
MaxInline == 1

----------------------------------------------------------------------------
(* String literals of the source                                           *)

EmptyStr == <<>>
Triple == <<"o", "r", "1", "k", "-", "l", "i", "n", "u", "x">>
S_ld == <<"-", "l", "d">>
S_strip == <<"-", "s", "t", "r", "i", "p">>
S_addr2line == <<"-", "a", "d", "d", "r", "2", "l", "i", "n", "e">>
S_shared == <<"-", "s", "h", "a", "r", "e", "d">>
S_eh_frame_hdr == <<"-", "-", "e", "h", "-", "f", "r", "a", "m", "e", "-", "h", "d", "r">>
S_init == <<"-", "i", "n", "i", "t">>
S_o == <<"-", "o">>
S_output_ph == <<"{", "o", "u", "t", "p", "u", "t", "}">>
S_obj_ph_fmt == <<"{", "{", "o", "b", "j", "{", "}", "}", "}">>
S_obj_key_fmt == <<"o", "b", "j", "{", "}">>
S_output == <<"o", "u", "t", "p", "u", "t">>
S_library == <<"l", "i", "b", "r", "a", "r", "y">>
S_library_ph == <<"{", "l", "i", "b", "r", "a", "r", "y", "}">>
S_strip_debug == <<"-", "-", "s", "t", "r", "i", "p", "-", "d", "e", "b", "u", "g">>
S_addresses == <<"-", "-", "a", "d", "d", "r", "e", "s", "s", "e", "s">>
S_functions == <<"-", "-", "f", "u", "n", "c", "t", "i", "o", "n", "s">>
S_inlines == <<"-", "-", "i", "n", "l", "i", "n", "e", "s">>
S_exe_ph == <<"-", "-", "e", "x", "e", "=", "{", "l", "i", "b", "r", "a", "r", "y", "}">>
S_failed_fmt == <<"{", "}", " ", "i", "n", "v", "o", "c", "a", "t", "i", "o", "n", " ",
                  "f", "a", "i", "l", "e", "d", ":", " ", "{", "}">>
S_txt == <<".", "t", "x", "t">>
S_ll == <<".", "l", "l">>
S_unopt_ll == <<"_", "u", "n", "o", "p", "t", ".", "l", "l">>
S_s == <<".", "s">>
S_so == <<".", "s", "o">>
S_0x == <<"0", "x">>
S_unknown == <<"?", "?">>
S_synthesized == <<"<", "s", "y", "n", "t", "h", "e", "s", "i", "z", "e", "d", ">">>
S_tmp == <<"/", "t", "m", "p", "/", "t", "m", "p">>

----------------------------------------------------------------------------
(* Python built-ins used by the source                                     *)

Digits == <<"0", "1", "2", "3", "4", "5", "6", "7", "8", "9",
            "a", "b", "c", "d", "e", "f">>

Take(s, n) == SubSeq(s, 1, IF n < Len(s) THEN n ELSE Len(s))
Drop(s, n) == SubSeq(s, n + 1, Len(s))

\* the digits of n >= 0 in base b, most significant first
RECURSIVE DigitsOf(_, _)
DigitsOf(n, b) ==
    IF n < b THEN <<Digits[n + 1]>>
    ELSE DigitsOf(n \div b, b) \o <<Digits[(n % b) + 1]>>

\* str(n) of an int
str(n) == IF n < 0 THEN <<"-">> \o DigitsOf(-n, 10) ELSE DigitsOf(n, 10)

\* hex(n) of an int
hex(n) == IF n < 0 THEN <<"-">> \o S_0x \o DigitsOf(-n, 16) ELSE S_0x \o DigitsOf(n, 16)

DigitValue(c) ==
    IF \E k \in 1..16 : Digits[k] = c
    THEN (CHOOSE k \in 1..16 : Digits[k] = c) - 1
    ELSE CASE c = "A" -> 10 [] c = "B" -> 11 [] c = "C" -> 12
           [] c = "D" -> 13 [] c = "E" -> 14 [] c = "F" -> 15
           [] OTHER -> 99

RECURSIVE DigitsValue(_, _, _)
DigitsValue(s, b, acc) ==
    IF s = <<>> THEN acc
    ELSE DigitsValue(Tail(s), b, acc * b + DigitValue(Head(s)))

\* int(s, b) for an unsigned digit string: ValueError on anything else
int(s, b) ==
    IF s # <<>> /\ \A k \in 1..Len(s) : DigitValue(s[k]) < b
    THEN [err |-> "none", val |-> DigitsValue(s, b, 0)]
    ELSE [err |-> "ValueError", val |-> 0]

\* the position of the first c in s at or after position i, 0 when there is none
RECURSIVE Find(_, _, _)
Find(s, c, i) ==
    IF i > Len(s) THEN 0 ELSE IF s[i] = c THEN i ELSE Find(s, c, i + 1)

\* the position of the last c in s, 0 when there is none
RECURSIVE RFind(_, _, _)
RFind(s, c, i) ==
    IF i < 1 THEN 0 ELSE IF s[i] = c THEN i ELSE RFind(s, c, i - 1)

\* s.rsplit(c, 1): one or two parts
rsplit(s, c) ==
    LET k == RFind(s, c, Len(s))
    IN  IF k = 0 THEN <<s>> ELSE <<SubSeq(s, 1, k - 1), Drop(s, k)>>

\* s.rstrip(): trailing whitespace removed
RECURSIVE rstrip(_)
rstrip(s) ==
    IF s # <<>> /\ s[Len(s)] \in {" ", "\n", "\t", "\r"}
    THEN rstrip(SubSeq(s, 1, Len(s) - 1))
    ELSE s

\* s.split(c): the parts between the occurrences of c (at least one part)
RECURSIVE split(_, _)
split(s, c) ==
    LET k == Find(s, c, 1)
    IN  IF k = 0 THEN <<s>> ELSE <<SubSeq(s, 1, k - 1)>> \o split(Drop(s, k), c)

\* fmt.format(*pos, **kw), from position i of fmt with `auto` automatic fields
\* already numbered.  "{{" and "}}" are literal braces, "{}" takes the next
\* positional argument, "{name}" takes kw[name]; a lone brace is a ValueError,
\* a missing name a KeyError, a missing positional argument an IndexError.
RECURSIVE FormatFrom(_, _, _, _, _)
FormatFrom(fmt, i, auto, pos, kw) ==
    LET lit(c, n) ==
            LET r == FormatFrom(fmt, n, auto, pos, kw)
            IN  [err |-> r.err, val |-> <<c>> \o r.val]
        fail(e) == [err |-> e, val |-> <<>>]
        field(v, n, a) ==
            LET r == FormatFrom(fmt, n, a, pos, kw)
            IN  [err |-> r.err, val |-> v \o r.val]
    IN  IF i > Len(fmt) THEN [err |-> "none", val |-> <<>>]
        ELSE IF fmt[i] = "{"
        THEN IF i < Len(fmt) /\ fmt[i + 1] = "{" THEN lit("{", i + 2)
             ELSE LET j == Find(fmt, "}", i + 1)
                      name == SubSeq(fmt, i + 1, j - 1)
                  IN  IF j = 0 \/ Find(name, "{", 1) # 0 THEN fail("ValueError")
                      ELSE IF name = <<>>
                      THEN IF auto + 1 > Len(pos) THEN fail("IndexError")
                           ELSE field(pos[auto + 1], j + 1, auto + 1)
                      ELSE IF name \in DOMAIN kw THEN field(kw[name], j + 1, auto)
                      ELSE fail("KeyError")
        ELSE IF fmt[i] = "}"
        THEN IF i < Len(fmt) /\ fmt[i + 1] = "}" THEN lit("}", i + 2)
             ELSE fail("ValueError")
        ELSE lit(fmt[i], i + 1)

format(fmt, pos, kw) == FormatFrom(fmt, 1, 0, pos, kw)

NoKw == [k \in {} |-> <<>>]


----------------------------------------------------------------------------
(* Values handed back to a caller                                          *)

NoExc == [type |-> "none", msg |-> <<>>]
NoReturn == [kind |-> "none", exc |-> NoExc, val |-> <<>>]
Value(v) == [kind |-> "value", exc |-> NoExc, val |-> v]
Raise(type, msg) == [kind |-> "raise", exc |-> [type |-> type, msg |-> msg], val |-> <<>>]

NoProc == [state |-> "none", returncode |-> 0, stdout |-> <<>>, stderr |-> <<>>,
           output |-> <<>>]
NoResults == [entered |-> FALSE, tempfiles |-> [k \in {} |-> <<>>], stdout |-> <<>>]

----------------------------------------------------------------------------
(* The inputs the calls are explored with                                  *)

Seqs(S, n) == UNION {[1..k -> S] : k \in 0..n}

\* os.getenv: None when the variable is unset, else its value
Unset == [set |-> FALSE, val |-> <<>>]
SetTo(v) == [set |-> TRUE, val |-> v]
DumpPrefix == <<"/", "d">>
EnvValues == {Unset, SetTo(EmptyStr), SetTo(DumpPrefix)}
CompileFlags == {"ARTIQ_DUMP_IR", "ARTIQ_DUMP_UNOPT_LLVM", "ARTIQ_DUMP_LLVM",
                 "ARTIQ_DUMP_ASM"}
Flags == CompileFlags \cup {"ARTIQ_DUMP_ELF"}
NoEnv == [f \in Flags |-> Unset]
\* compile reads the four compile flags, link reads ARTIQ_DUMP_ELF
EnvsCompile == {e \in [Flags -> EnvValues] : e["ARTIQ_DUMP_ELF"] = Unset}
EnvsLink == {e \in [Flags -> EnvValues] : \A f \in CompileFlags : e[f] = Unset}
\* compile_and_link reads all five: the compile flags are explored together
EnvsCompileAndLink ==
    {e \in [Flags -> EnvValues] : \A f, g \in CompileFlags : e[f] = e[g]}

\* A module, as far as compile sees it: where (if anywhere) the backend fails
\* on it, and the symbol its entry_point() returns.
S_main == <<"m", "a", "i", "n">>
EntrySymbols == {S_main, S_output_ph}
Module(id, fail, entry) == [id |-> id, fail |-> fail, entry |-> entry]
Modules ==
    {Module(1, "none", S_main), Module(2, "none", S_output_ph),
     Module(3, "parse", S_main), Module(4, "verify", S_main),
     Module(5, "lower", S_main), Module(6, "optimize", S_main),
     Module(7, "emit", S_main)}
ModulesToLink ==
    {Module(1, "none", S_main), Module(2, "none", S_output_ph),
     Module(4, "verify", S_main)}

\* the texts and bytes the external collaborators produce for a module
ArtiqIrText(m) == <<"i", "r">> \o str(m.id)
LlvmIrText(m) == <<"l", "l">> \o str(m.id)
OptimizedText(m) == <<"o", "p", "t">> \o str(m.id)
AssemblyText(m) == <<"a", "s", "m">> \o str(m.id)
ObjectBytes(m) == <<m.id>>

ObjectLists == Seqs({<<1>>, <<2>>}, MaxObjects)
Libraries == {<<7>>, <<8, 9>>}
Addresses == {1, 27}
AddressLists == {<<>>} \cup {<<a>> : a \in Addresses}
                \cup {<<a, b>> : a, b \in Addresses}

NoOp == [name |-> "none", env |-> NoEnv, modules |-> <<>>, library |-> <<>>,
         addresses |-> <<>>]

----------------------------------------------------------------------------
(* RunTool                                                                 *)

TmpName(n) == S_tmp \o str(n)

\* tempfile picks a name no existing file has
FreshIndex(used, suffix) ==
    CHOOSE n \in 0..Cardinality(used) :
        /\ TmpName(n) \o suffix \notin used
        /\ \A m \in 0..(n - 1) : TmpName(m) \o suffix \in used

\* RunTool.maketemp: a NamedTemporaryFile holding data, flushed, position at
\* its end, appended to self.files
maketemp(data, dsk, fls) ==
    LET name == TmpName(FreshIndex(DOMAIN dsk, EmptyStr))
    IN  [disk |-> (name :> data) @@ dsk,
         files |-> Append(fls, name),
         f |-> [name |-> name, pos |-> Len(data)]]

\* the loop over self.tempdata of __enter__
RECURSIVE MakeTemps(_, _, _, _)
MakeTemps(tempdata, dsk, fls, tfs) ==
    IF tempdata = <<>> THEN [disk |-> dsk, files |-> fls, tempfiles |-> tfs]
    ELSE LET m == maketemp(Head(tempdata).data, dsk, fls)
         IN  MakeTemps(Tail(tempdata), m.disk, m.files,
                       (Head(tempdata).key :> m.f) @@ tfs)

\* the loop over self.pattern of __enter__
RECURSIVE FormatAll(_, _)
FormatAll(pattern, tempnames) ==
    IF pattern = <<>> THEN [err |-> "none", val |-> <<>>]
    ELSE LET a == format(Head(pattern), <<>>, tempnames)
             r == FormatAll(Tail(pattern), tempnames)
         IN  IF a.err # "none" THEN [err |-> a.err, val |-> <<>>]
             ELSE [err |-> r.err, val |-> <<a.val>> \o r.val]

\* f.read() of a temporary file: from its position to the end of the file
Read(f, dsk) == SubSeq(dsk[f.name], f.pos + 1, Len(dsk[f.name]))

\* the arguments of the RunTool(...) calls in link, strip and symbolize
LinkPattern(objs, init) ==
    <<Triple \o S_ld, S_shared, S_eh_frame_hdr, S_init, init>>
    \o [i \in 1..Len(objs) |-> format(S_obj_ph_fmt, <<str(i - 1)>>, NoKw).val]
    \o <<S_o, S_output_ph>>
LinkTempdata(objs) ==
    <<[key |-> S_output, data |-> <<>>]>>
    \o [i \in 1..Len(objs) |->
          [key |-> format(S_obj_key_fmt, <<str(i - 1)>>, NoKw).val, data |-> objs[i]]]
StripPattern == <<Triple \o S_strip, S_strip_debug, S_library_ph, S_o, S_output_ph>>
StripTempdata(library) ==
    <<[key |-> S_library, data |-> library], [key |-> S_output, data |-> <<>>]>>
offset_addresses_Unshifted(addresses) == [i \in 1..Len(addresses) |-> hex(addresses[i])]
offset_addresses(addresses) == [i \in 1..Len(addresses) |-> hex(addresses[i] - 1)]
SymbolizePattern(addresses) ==
    <<Triple \o S_addr2line, S_addresses, S_functions, S_inlines, S_exe_ph>>
    \o offset_addresses(addresses)
SymbolizeTempdata(library) == <<[key |-> S_library, data |-> library]>>

----------------------------------------------------------------------------
(* The external tools, as subprocess.Popen / communicate see them          *)

ErrText == <<"e", "r", "r">>
KnownFile == <<"c", ":", "a", ".", "p", "y">>
FileKinds == {KnownFile, S_unknown, S_synthesized}

\* the file a tool writes: the argument after "-o"
OutputPath(cmdline) ==
    LET k == CHOOSE k \in 1..Len(cmdline) : cmdline[k] = S_o
    IN  cmdline[k + 1]
HasOutput(cmdline) ==
    \E k \in 1..(Len(cmdline) - 1) : cmdline[k] = S_o

Exited(rc, out, err, dsk) ==
    [state |-> "exited", returncode |-> rc, stdout |-> out, stderr |-> err, disk |-> dsk]

\* the linker and the stripper: status 0 with the output file written, or a
\* nonzero status with a diagnostic on standard error
WriterRuns(cmdline, dsk) ==
    {Exited(1, <<>>, ErrText, dsk)}
    \cup {Exited(0, <<>>, <<>>,
                 IF HasOutput(cmdline)
                 THEN (OutputPath(cmdline) :> lib) @@ dsk ELSE dsk) :
          lib \in Libraries}

\* addr2line --addresses --functions --inlines: for every queried address an
\* address line (0x and eight hex digits), then for the innermost frame and
\* each frame it was inlined into a function line and a file:line line
QueryOf(arg) ==
    LET r == int(Drop(arg, 2), 16)
    IN  IF Take(arg, 2) = S_0x /\ r.err = "none" THEN r.val ELSE 0
ZeroPad(s, n) == [i \in 1..(n - Len(s)) |-> "0"] \o s
AddrLine(q) == S_0x \o ZeroPad(DigitsOf(q, 16), 8)
FnName(j) == <<"f">> \o str(j)
LocLine(file, j) ==
    file \o <<":">> \o (IF file = KnownFile THEN str(10 + j) ELSE <<"0">>)
RECURSIVE RecordLines(_, _)
RecordLines(fs, j) ==
    IF j > Len(fs) THEN <<>>
    ELSE <<FnName(j), LocLine(fs[j], j)>> \o RecordLines(fs, j + 1)
QueryAnswer(q, fs) == <<AddrLine(q)>> \o RecordLines(fs, 1)
QueryAnswers(q) ==
    {QueryAnswer(q, fs) : fs \in UNION {[1..(n + 1) -> FileKinds] : n \in 0..MaxInline}}
RECURSIVE AllAnswers(_)
AllAnswers(qs) ==
    IF qs = <<>> THEN {<<>>}
    ELSE {a \o r : a \in QueryAnswers(Head(qs)), r \in AllAnswers(Tail(qs))}
RECURSIVE Unlines(_)
Unlines(lines) ==
    IF lines = <<>> THEN <<>> ELSE Head(lines) \o <<"\n">> \o Unlines(Tail(lines))
ResolverRuns(cmdline, dsk) ==
    {Exited(1, <<>>, ErrText, dsk)}
    \cup {Exited(0, Unlines(ls), <<>>, dsk) :
          ls \in AllAnswers([i \in 1..(Len(cmdline) - 5) |-> QueryOf(cmdline[5 + i])])}

\* Popen itself raises OSError when the executable cannot be started
ToolRuns(cmdline, dsk) ==
    {[state |-> "oserror", returncode |-> 0, stdout |-> <<>>, stderr |-> <<>>,
      disk |-> dsk]}
    \cup (IF cmdline[1] = Triple \o S_addr2line
          THEN ResolverRuns(cmdline, dsk) ELSE WriterRuns(cmdline, dsk))

----------------------------------------------------------------------------
(* _dump                                                                   *)

Text(v) == [t |-> "str", v |-> v]
Bytes(v) == [t |-> "bytes", v |-> v]

\* _dump(target, kind, suffix, content): nothing when target is None; else
\* content() is encoded (bytes(x, 'utf-8') raises TypeError unless x is a str)
\* and written to a kept, freshly named temporary file (target "") or to
\* target + suffix.  dmp is the list of artifacts written so far.
_dump_AlwaysNamed(target, kind, suffix, content, dmp) ==
    IF ~target.set THEN [err |-> "none", dumps |-> dmp]
    ELSE IF content.t # "str" THEN [err |-> "TypeError", dumps |-> dmp]
    ELSE [err |-> "none",
          dumps |-> Append(dmp, [kind |-> kind, name |-> target.val \o suffix,
                                 temporary |-> FALSE, content |-> content.v])]
_dump(target, kind, suffix, content, dmp) ==
    IF ~target.set THEN [err |-> "none", dumps |-> dmp]
    ELSE IF content.t # "str" THEN [err |-> "TypeError", dumps |-> dmp]
    ELSE LET used == {dmp[i].name : i \in 1..Len(dmp)}
             name == IF target.val = EmptyStr
                     THEN TmpName(FreshIndex(used, suffix)) \o suffix
                     ELSE target.val \o suffix
         IN  [err |-> "none",
              dumps |-> Append(dmp, [kind |-> kind, name |-> name,
                                     temporary |-> target.val = EmptyStr,
                                     content |-> content.v])]

getenv(name) == op.env[name]

----------------------------------------------------------------------------
(* The state machine                                                       *)

NoFiles == [n \in {} |-> <<>>]

Init ==
    /\ pc = "idle"
    /\ op = NoOp
    /\ ret = NoReturn
    /\ disk = NoFiles
    /\ files = <<>>
    /\ results = NoResults
    /\ spawned = <<>>
    /\ proc = NoProc
    /\ dumps = <<>>
    /\ stages = <<>>
    /\ objects = <<>>
    /\ init_fn = <<>>

Linking == op.name \in {"link", "compile_and_link"}

\* the module compile is working on
module_First == op.modules[1]
module == op.modules[Len(objects) + 1]

(* The caller starts one of the five operations of Target. *)

CallCompile ==
    /\ pc = "idle"
    /\ \E m \in Modules, e \in EnvsCompile :
         op' = [NoOp EXCEPT !.name = "compile", !.env = e, !.modules = <<m>>]
    /\ pc' = "dump_ir"
    /\ UNCHANGED <<ret, disk, files, results, spawned, proc, dumps, stages,
                   objects, init_fn>>

CallLink ==
    /\ pc = "idle"
    /\ \E objs \in ObjectLists, init \in EntrySymbols, e \in EnvsLink :
         /\ op' = [NoOp EXCEPT !.name = "link", !.env = e]
         /\ objects' = objs
         /\ init_fn' = init
    /\ pc' = "enter"
    /\ stages' = <<"link">>
    /\ UNCHANGED <<ret, disk, files, results, spawned, proc, dumps>>

\* the list comprehension of compile_and_link compiles nothing for modules = []
CallCompileAndLink ==
    /\ pc = "idle"
    /\ \E ms \in Seqs(ModulesToLink, MaxModules), e \in EnvsCompileAndLink :
         /\ op' = [NoOp EXCEPT !.name = "compile_and_link", !.env = e, !.modules = ms]
         /\ pc' = IF ms = <<>> THEN "entry_point" ELSE "dump_ir"
    /\ UNCHANGED <<ret, disk, files, results, spawned, proc, dumps, stages,
                   objects, init_fn>>

CallStrip ==
    /\ pc = "idle"
    /\ \E lib \in Libraries :
         op' = [NoOp EXCEPT !.name = "strip", !.library = lib]
    /\ pc' = "enter"
    /\ UNCHANGED <<ret, disk, files, results, spawned, proc, dumps, stages,
                   objects, init_fn>>

CallSymbolize ==
    /\ pc = "idle"
    /\ \E lib \in Libraries, addrs \in AddressLists :
         op' = [NoOp EXCEPT !.name = "symbolize", !.library = lib, !.addresses = addrs]
    /\ pc' = "symbolize"
    /\ UNCHANGED <<ret, disk, files, results, spawned, proc, dumps, stages,
                   objects, init_fn>>

(* Target.compile, one action per stage. *)

\* a flag-gated dump d was attempted as stage `stage`; `next` follows it
DumpStage(d, stage, next) ==
    /\ dumps' = d.dumps
    /\ stages' = Append(stages, stage)
    /\ IF d.err = "none"
       THEN pc' = next /\ ret' = ret
       ELSE pc' = "done" /\ ret' = Raise(d.err, <<>>)
    /\ UNCHANGED <<op, disk, files, results, spawned, proc, objects, init_fn>>

\* a backend stage ran: it raises when the module fails there
BackendStage_Continues(fails, stage, next) ==
    /\ stages' = Append(stages, stage)
    /\ pc' = next
    /\ ret' = IF fails THEN Raise("RuntimeError", <<>>) ELSE ret
    /\ UNCHANGED <<op, disk, files, results, spawned, proc, dumps, objects, init_fn>>
BackendStage(fails, stage, next) ==
    /\ stages' = Append(stages, stage)
    /\ IF fails
       THEN pc' = "done" /\ ret' = Raise("RuntimeError", <<>>)
       ELSE pc' = next /\ ret' = ret
    /\ UNCHANGED <<op, disk, files, results, spawned, proc, dumps, objects, init_fn>>

CompileDumpIR ==
    /\ pc = "dump_ir"
    /\ DumpStage(_dump(getenv("ARTIQ_DUMP_IR"), "ARTIQ IR", S_txt,
                       Text(ArtiqIrText(module)), dumps),
                 "dump_ir", "lower")

CompileLower ==
    /\ pc = "lower"
    /\ BackendStage(module.fail = "lower", "lower", "verify")

\* the target of the dump in the except clause of compile
BrokenDumpTarget_FromFlag == getenv("ARTIQ_DUMP_LLVM")
BrokenDumpTarget == SetTo(EmptyStr)

\* parse_assembly and verify; on RuntimeError the broken IR is dumped to a
\* temporary file and the exception raised again
CompileVerify ==
    /\ pc = "verify"
    /\ stages' = Append(stages, "verify")
    /\ IF module.fail \in {"parse", "verify"}
       THEN /\ dumps' = _dump(BrokenDumpTarget, "LLVM IR (broken)", S_ll,
                              Text(LlvmIrText(module)), dumps).dumps
            /\ ret' = Raise("RuntimeError", <<>>)
            /\ pc' = "done"
       ELSE /\ pc' = "dump_unopt"
            /\ UNCHANGED <<dumps, ret>>
    /\ UNCHANGED <<op, disk, files, results, spawned, proc, objects, init_fn>>

CompileDumpUnopt ==
    /\ pc = "dump_unopt"
    /\ DumpStage(_dump(getenv("ARTIQ_DUMP_UNOPT_LLVM"), "LLVM IR (generated)",
                       S_unopt_ll, Text(LlvmIrText(module)), dumps),
                 "dump_unopt", "optimize")

CompileOptimize ==
    /\ pc = "optimize"
    /\ BackendStage(module.fail = "optimize", "optimize", "dump_opt")

CompileDumpOpt ==
    /\ pc = "dump_opt"
    /\ DumpStage(_dump(getenv("ARTIQ_DUMP_LLVM"), "LLVM IR (optimized)", S_ll,
                       Text(OptimizedText(module)), dumps),
                 "dump_opt", "dump_asm")

\* the target machine is created, then the assembly dump: its content
\* producer, emit_assembly, runs (and can fail) only when the flag is set
CompileDumpAsm ==
    /\ pc = "dump_asm"
    /\ IF getenv("ARTIQ_DUMP_ASM").set /\ module.fail = "emit"
       THEN BackendStage(TRUE, "dump_asm", "emit")
       ELSE DumpStage(_dump(getenv("ARTIQ_DUMP_ASM"), "Assembly", S_s,
                            Text(AssemblyText(module)), dumps),
                      "dump_asm", "emit")

\* emit_object and return; in compile_and_link the object joins the list and
\* the comprehension goes on to the next module
CompileEmit ==
    /\ pc = "emit"
    /\ stages' = Append(stages, "emit")
    /\ IF module.fail = "emit"
       THEN pc' = "done" /\ ret' = Raise("RuntimeError", <<>>) /\ objects' = objects
       ELSE IF op.name = "compile"
       THEN pc' = "done" /\ ret' = Value(ObjectBytes(module)) /\ objects' = objects
       ELSE /\ objects' = Append(objects, ObjectBytes(module))
            /\ pc' = IF Len(objects) + 1 < Len(op.modules) THEN "dump_ir" ELSE "entry_point"
            /\ ret' = ret
    /\ UNCHANGED <<op, disk, files, results, spawned, proc, dumps, init_fn>>

\* modules[0], an IndexError for an empty list
FirstModule_Defaulted(modules) ==
    IF modules = <<>> THEN [err |-> "none", val |-> Module(1, "none", S_main)]
    ELSE [err |-> "none", val |-> modules[1]]
FirstModule(modules) ==
    IF modules = <<>> THEN [err |-> "IndexError", val |-> Module(0, "none", <<>>)]
    ELSE [err |-> "none", val |-> modules[1]]

\* compile_and_link: modules[0].entry_point(), then link
CompileAndLinkEntry ==
    /\ pc = "entry_point"
    /\ IF FirstModule(op.modules).err # "none"
       THEN /\ ret' = Raise(FirstModule(op.modules).err, <<>>)
            /\ pc' = "done"
            /\ UNCHANGED <<init_fn, stages>>
       ELSE /\ init_fn' = FirstModule(op.modules).val.entry
            /\ pc' = "enter"
            /\ stages' = stages \o <<"entry_point", "link">>
            /\ ret' = ret
    /\ UNCHANGED <<op, disk, files, results, spawned, proc, dumps, objects>>

(* RunTool: construction and __enter__, the body of the with statement,     *)
(* __exit__.                                                                *)

Pattern ==
    CASE Linking -> LinkPattern(objects, init_fn)
      [] op.name = "strip" -> StripPattern
      [] OTHER -> SymbolizePattern(op.addresses)
Tempdata ==
    CASE Linking -> LinkTempdata(objects)
      [] op.name = "strip" -> StripTempdata(op.library)
      [] OTHER -> SymbolizeTempdata(op.library)

\* the content of the file a command line names after -o, when there is one
OutputOf(cmdline, dsk) ==
    IF HasOutput(cmdline) /\ OutputPath(cmdline) \in DOMAIN dsk
    THEN dsk[OutputPath(cmdline)] ELSE <<>>

\* the test of process.returncode in __enter__
ToolFailed_OnlySignals(returncode) == returncode < 0
ToolFailed(returncode) == returncode # 0

\* __enter__: the temporary files, the command line, the process; an
\* exception leaves __enter__ without __exit__ being called
RunToolEnter ==
    /\ pc = "enter"
    /\ LET t == MakeTemps(Tempdata, disk, <<>>, NoFiles)
           tempnames == [k \in DOMAIN t.tempfiles |-> t.tempfiles[k].name]
           cmdline == FormatAll(Pattern, tempnames)
       IN  /\ files' = t.files
           /\ stages' = Append(stages, "enter")
           /\ IF cmdline.err # "none"
              THEN /\ disk' = t.disk
                   /\ ret' = Raise(cmdline.err, <<>>)
                   /\ pc' = "done"
                   /\ UNCHANGED <<spawned, proc, results>>
              ELSE \E run \in ToolRuns(cmdline.val, t.disk) :
                   /\ spawned' = Append(spawned, cmdline.val)
                   /\ disk' = run.disk
                   /\ proc' = [state |-> run.state, returncode |-> run.returncode,
                               stdout |-> run.stdout, stderr |-> run.stderr,
                               output |-> OutputOf(cmdline.val, run.disk)]
                   /\ IF run.state = "oserror"
                      THEN ret' = Raise("OSError", <<>>) /\ pc' = "done"
                           /\ results' = results
                      ELSE IF ToolFailed(run.returncode)
                      THEN /\ ret' = Raise("Exception",
                                           format(S_failed_fmt,
                                                  <<cmdline.val[1], run.stderr>>,
                                                  NoKw).val)
                           /\ pc' = "done"
                           /\ results' = results
                      ELSE /\ results' = [entered |-> TRUE, tempfiles |-> t.tempfiles,
                                          stdout |-> run.stdout]
                           /\ pc' = "body"
                           /\ ret' = ret
    /\ UNCHANGED <<op, dumps, objects, init_fn>>

\* the body of the with statement in link
LinkBody ==
    /\ pc = "body"
    /\ Linking
    /\ LET library == Read(results.tempfiles[S_output], disk)
           d == _dump(getenv("ARTIQ_DUMP_ELF"), "Shared library", S_so,
                      Bytes(library), dumps)
       IN  /\ dumps' = d.dumps
           /\ ret' = IF d.err = "none" THEN Value(library) ELSE Raise(d.err, <<>>)
    /\ pc' = "exit"
    /\ stages' = Append(stages, "body")
    /\ UNCHANGED <<op, disk, files, results, spawned, proc, objects, init_fn>>

\* the key of the temporary file strip reads its result from
StripResultKey_Library == S_library
StripResultKey == S_output

\* the body of the with statement in strip
StripBody ==
    /\ pc = "body"
    /\ op.name = "strip"
    /\ ret' = Value(Read(results.tempfiles[StripResultKey], disk))
    /\ pc' = "exit"
    /\ stages' = Append(stages, "body")
    /\ UNCHANGED <<op, disk, files, results, spawned, proc, dumps, objects, init_fn>>

\* the address of a frame from the number on its 0x line ("remove offset")
remove_offset_Forgotten(n) == n
remove_offset(n) == n + 1

\* whether a frame with this file name is left out of the backtrace
Discarded_UnknownOnly(filename) == filename = S_unknown
Discarded(filename) == filename = S_unknown \/ filename = S_synthesized

\* backtrace.append(frame)
append_AtFront(backtrace, frame) == <<frame>> \o backtrace
append(backtrace, frame) == Append(backtrace, frame)

\* the while loop of symbolize over the resolver's lines, from line i with
\* the frames in `backtrace` recorded so far
RECURSIVE ParseLines(_, _, _)
ParseLines(lines, i, backtrace) ==
    LET fail(e) == [err |-> e, backtrace |-> backtrace]
        address_or_function == lines[i]
        explicit == Take(address_or_function, 2) = S_0x
        parsed == int(Drop(address_or_function, 2), 16)
        \* the position of the location line, and the frame's function and address
        at == IF explicit THEN i + 2 ELSE i + 1
        function == IF explicit THEN lines[i + 1] ELSE address_or_function
        address == IF explicit THEN remove_offset(parsed.val)
                   ELSE backtrace[Len(backtrace)][5]
        location == rsplit(lines[at], ":")
        line == int(location[2], 10)
    IN  IF i > Len(lines) THEN [err |-> "none", backtrace |-> backtrace]
        ELSE IF explicit /\ parsed.err # "none" THEN fail("ValueError")
        ELSE IF ~explicit /\ backtrace = <<>> THEN fail("IndexError")
        ELSE IF at > Len(lines) THEN fail("StopIteration")
        ELSE IF Len(location) # 2 THEN fail("ValueError")
        ELSE IF Discarded(location[1])
        THEN ParseLines(lines, at + 1, backtrace)
        ELSE IF line.err # "none" THEN fail("ValueError")
        ELSE ParseLines(lines, at + 1,
                        append(backtrace,
                               <<location[1], line.val, -1, function, address>>))

\* the body of the with statement in symbolize
SymbolizeBody ==
    /\ pc = "body"
    /\ op.name = "symbolize"
    /\ LET lines == split(rstrip(results.stdout), "\n")
           r == ParseLines(lines, 1, <<>>)
       IN  ret' = IF r.err = "none" THEN Value(r.backtrace) ELSE Raise(r.err, <<>>)
    /\ pc' = "exit"
    /\ stages' = Append(stages, "body")
    /\ UNCHANGED <<op, disk, files, results, spawned, proc, dumps, objects, init_fn>>

\* __exit__: every file of self.files is closed, which deletes it
RunToolExit_KeepsFiles ==
    /\ pc = "exit"
    /\ pc' = "done"
    /\ stages' = Append(stages, "exit")
    /\ UNCHANGED <<op, ret, disk, files, results, spawned, proc, dumps, objects,
                   init_fn>>
RunToolExit ==
    /\ pc = "exit"
    /\ disk' = [n \in DOMAIN disk \ {files[i] : i \in 1..Len(files)} |-> disk[n]]
    /\ pc' = "done"
    /\ stages' = Append(stages, "exit")
    /\ UNCHANGED <<op, ret, files, results, spawned, proc, dumps, objects, init_fn>>

\* the test that opens symbolize
NoAddresses_IsNone(addresses) == FALSE
NoAddresses(addresses) == addresses = <<>>

\* symbolize before its with statement
SymbolizeStart ==
    /\ pc = "symbolize"
    /\ IF NoAddresses(op.addresses)
       THEN ret' = Value(<<>>) /\ pc' = "done"
       ELSE ret' = ret /\ pc' = "enter"
    /\ UNCHANGED <<op, disk, files, results, spawned, proc, dumps, stages,
                   objects, init_fn>>

\* The caller takes the value or handles the exception.  The RunTool object
\* is then unreachable: its NamedTemporaryFiles are finalized, which deletes
\* the files __exit__ did not close.
Return ==
    /\ pc = "done"
    /\ pc' = "idle"
    /\ op' = NoOp
    /\ ret' = NoReturn
    /\ disk' = [n \in DOMAIN disk \ {files[i] : i \in 1..Len(files)} |-> disk[n]]
    /\ files' = <<>>
    /\ results' = NoResults
    /\ spawned' = <<>>
    /\ proc' = NoProc
    /\ dumps' = <<>>
    /\ stages' = <<>>
    /\ objects' = <<>>
    /\ init_fn' = <<>>

Next ==
    \/ CallCompile
    \/ CallLink
    \/ CallCompileAndLink
    \/ CallStrip
    \/ CallSymbolize
    \/ CompileDumpIR
    \/ CompileLower
    \/ CompileVerify
    \/ CompileDumpUnopt
    \/ CompileOptimize
    \/ CompileDumpOpt
    \/ CompileDumpAsm
    \/ CompileEmit
    \/ CompileAndLinkEntry
    \/ RunToolEnter
    \/ LinkBody
    \/ StripBody
    \/ SymbolizeBody
    \/ RunToolExit
    \/ SymbolizeStart
    \/ Return

Spec == Init /\ [][Next]_vars

----------------------------------------------------------------------------
(* Properties                                                              *)

Done(name) == pc = "done" /\ op.name = name
DumpKinds == {dumps[i].kind : i \in 1..Len(dumps)}
DumpsOfKind(kind) == {i \in 1..Len(dumps) : dumps[i].kind = kind}
StageSet == {stages[i] : i \in 1..Len(stages)}
FileSet == {files[i] : i \in 1..Len(files)}
VerificationFails == op.modules[1].fail \in {"parse", "verify"}
ToolExited == proc.state = "exited"
EndsWith(s, suffix) ==
    Len(s) >= Len(suffix) /\ SubSeq(s, Len(s) - Len(suffix) + 1, Len(s)) = suffix

\* C1, as claimed: a compile of a module that fails parsing or verification
\* returns no object, raises, and has written exactly one artifact, the broken
\* backend IR, whatever the dump flags are.
C1_OnlyTheBrokenDump ==
    (Done("compile") /\ VerificationFails) =>
        /\ ret.kind = "raise"
        /\ Len(dumps) = 1
        /\ dumps[1].kind = "LLVM IR (broken)"

\* C1, amended: such a compile raises the verifier's RuntimeError, returns no
\* object and writes the broken backend IR exactly once, to a kept temporary
\* .ll file; it writes none of the unoptimized, optimized and assembly dumps;
\* the only other artifact is the pre-lowering ARTIQ IR dump, which is
\* written exactly when ARTIQ_DUMP_IR is set.
C1_BrokenDumpAndIrDumpOnly ==
    (Done("compile") /\ VerificationFails) =>
        /\ ret = Raise("RuntimeError", <<>>)
        /\ Cardinality(DumpsOfKind("LLVM IR (broken)")) = 1
        /\ \A i \in DumpsOfKind("LLVM IR (broken)") :
             /\ dumps[i].temporary
             /\ EndsWith(dumps[i].name, S_ll)
             /\ dumps[i].content = LlvmIrText(op.modules[1])
        /\ DumpKinds \subseteq {"LLVM IR (broken)", "ARTIQ IR"}
        /\ Cardinality(DumpsOfKind("ARTIQ IR")) =
             (IF getenv("ARTIQ_DUMP_IR").set THEN 1 ELSE 0)
        /\ Len(dumps) = 1 + Cardinality(DumpsOfKind("ARTIQ IR"))

\* C1, witness: a module failed verification with every compile flag set.
C1_Witness ==
    /\ Done("compile") /\ VerificationFails
    /\ \A f \in CompileFlags : getenv(f).set
    /\ Len(dumps) = 2

\* C2, as claimed: when control is back with the caller, none of the
\* temporary files the RunTool call created exists any more.
C2_NoTemporaryFileLeft ==
    pc = "done" => FileSet \cap DOMAIN disk = {}

\* C3: when the tool exits with a nonzero status the call raises an exception
\* whose message holds the executable's name (the first element of the command
\* line) and the captured standard error, the body of the with statement never
\* runs, the tool was spawned once, and no library or backtrace is returned.
C3_NonzeroExitFails ==
    (ToolExited /\ proc.returncode # 0) =>
        /\ pc = "done"
        /\ ret.kind = "raise"
        /\ ret.exc.type = "Exception"
        /\ Len(spawned) = 1
        /\ spawned[1][1] = Triple \o (CASE Linking -> S_ld
                                        [] op.name = "strip" -> S_strip
                                        [] OTHER -> S_addr2line)
        /\ ret.exc.msg = spawned[1][1]
                         \o <<" ", "i", "n", "v", "o", "c", "a", "t", "i", "o", "n", " ",
                              "f", "a", "i", "l", "e", "d", ":", " ">>
                         \o proc.stderr
        /\ "body" \notin StageSet
        /\ ~results.entered

\* C3, witness: the stripper exited with a nonzero status and a diagnostic.
C3_Witness ==
    /\ pc = "done" /\ ToolExited /\ proc.returncode # 0
    /\ op.name = "strip"
    /\ proc.stderr # <<>>

\* C4: symbolize(library, []) returns the empty backtrace without creating a
\* temporary file or spawning a process.
C4_EmptySymbolize ==
    (op.name = "symbolize" /\ op.addresses = <<>>) =>
        /\ pc \in {"symbolize", "done"}
        /\ spawned = <<>>
        /\ proc.state = "none"
        /\ files = <<>>
        /\ disk = NoFiles
        /\ pc = "done" => ret = Value(<<>>)

\* C4, witness: symbolize was called with no address and returned.
C4_Witness ==
    Done("symbolize") /\ op.addresses = <<>> /\ ret.kind = "value"

\* the resolver exited with status 0 and printed `lines`
Resolved(lines) ==
    ToolExited /\ proc.returncode = 0 /\ proc.stdout = Unlines(lines)

\* C5: for a return address A >= 1 whose query A-1 the resolver answers with
\* one record with a known file, symbolize([A]) is exactly one frame
\* (file, line, -1, function, A).
C5_SingleFrame ==
    \A A \in Addresses :
        (Done("symbolize") /\ op.addresses = <<A>>
         /\ Resolved(QueryAnswer(A - 1, <<KnownFile>>))) =>
            ret = Value(<< <<KnownFile, 11, -1, FnName(1), A>> >>)

\* C5, witness: such a call for the return address 27 (query 0x1a) returned.
C5_Witness ==
    /\ Done("symbolize") /\ op.addresses = <<27>>
    /\ Resolved(QueryAnswer(26, <<KnownFile>>))
    /\ ret.kind = "value"

\* C6: for a return address A whose query the resolver answers with one record
\* with an address line and one address-less record, both with known files,
\* symbolize([A]) has at least two frames, all with address A, the innermost
\* (inlined) function first and the enclosing function last.
C6_InlinedFrames ==
    \A A \in Addresses :
        (Done("symbolize") /\ op.addresses = <<A>>
         /\ Resolved(QueryAnswer(A - 1, <<KnownFile, KnownFile>>))) =>
            /\ ret.kind = "value"
            /\ Len(ret.val) >= 2
            /\ \A i \in 1..Len(ret.val) : ret.val[i][5] = A
            /\ ret.val[1][4] = FnName(1)
            /\ ret.val[Len(ret.val)][4] = FnName(2)

\* C6, witness: such a call returned its two frames.
C6_Witness ==
    /\ Done("symbolize") /\ op.addresses = <<27>>
    /\ Resolved(QueryAnswer(26, <<KnownFile, KnownFile>>))
    /\ ret.kind = "value" /\ Len(ret.val) = 2

\* C7: no frame of a backtrace symbolize returns has the file name "??" or
\* "<synthesized>", whether its record had an address line or not.
C7_NoUnknownFrames ==
    (op.name = "symbolize" /\ ret.kind = "value") =>
        \A i \in 1..Len(ret.val) : ret.val[i][1] \notin {S_unknown, S_synthesized}

\* C7, witness: a backtrace was returned for an output with a "<synthesized>"
\* record without an address line and a "??" record with one.
C7_Witness ==
    /\ Done("symbolize") /\ op.addresses = <<27, 1>>
    /\ Resolved(QueryAnswer(26, <<KnownFile, S_synthesized>>)
                \o QueryAnswer(0, <<S_unknown, KnownFile>>))
    /\ ret.kind = "value" /\ Len(ret.val) = 2

C9_LinkerCommand ==
    (op.name = "compile_and_link" /\ "enter" \in StageSet) =>
        /\ Len(spawned) = 1
        /\ Len(objects) = Len(op.modules)
        /\ Len(files) = Len(objects) + 1
        /\ spawned[1] = <<Triple \o S_ld, S_shared, S_eh_frame_hdr, S_init,
                          op.modules[1].entry>>
                        \o [i \in 1..Len(objects) |-> files[i + 1]]
                        \o <<S_o, files[1]>>
        /\ pc = "body" =>
             \A i \in 1..Len(objects) :
                 disk[spawned[1][5 + i]] = ObjectBytes(op.modules[i])
        /\ (pc = "done" /\ ret.kind = "value") => ret.val = proc.output

\* C10, as claimed: the dump flags never change whether compile and link
\* succeed nor the bytes they return: compile returns the module's object
\* exactly when no backend stage fails on the module, link returns the content
\* of the output file exactly when the linker exits with status zero.
C10_DumpsNeverChangeTheOutcome ==
    /\ Done("compile") =>
          /\ ret.kind = "value" <=> op.modules[1].fail = "none"
          /\ ret.kind = "value" => ret.val = ObjectBytes(op.modules[1])
    /\ Done("link") =>
          /\ ret.kind = "value" <=> (ToolExited /\ proc.returncode = 0)
          /\ ret.kind = "value" => ret.val = proc.output

\* the name of the temporary file RunTool made for the key
TempName(key) == results.tempfiles[key].name

\* C11: strip does not mutate the library it is given.  The library is copied
\* to a temporary file of its own, the stripped bytes are read from a
\* different file, the one the stripper was told to write after -o, and
\* returned as a new value; the argument is as it was.  So symbolize on the
\* unstripped library is not affected by strip: the resolver is handed a
\* file that holds exactly the bytes of the library symbolize was given, and
\* the backtrace is a function of the resolver's output alone.
C11_StripLeavesLibrary ==
    /\ (op.name = "strip" /\ results.entered) =>
          /\ op.library \in Libraries
          /\ Len(files) = 2
          /\ TempName(S_library) # TempName(S_output)
          /\ spawned[1] = <<Triple \o S_strip, S_strip_debug, TempName(S_library),
                            S_o, TempName(S_output)>>
          /\ pc = "body" => disk[TempName(S_library)] = op.library
          /\ (pc \in {"exit", "done"}) => ret = Value(proc.output)
    /\ (op.name = "symbolize" /\ results.entered) =>
          /\ spawned[1][5] = <<"-", "-", "e", "x", "e", "=">> \o TempName(S_library)
          /\ pc = "body" => disk[TempName(S_library)] = op.library
          /\ (pc \in {"exit", "done"}) =>
                LET r == ParseLines(split(rstrip(proc.stdout), "\n"), 1, <<>>)
                IN  ret = IF r.err = "none" THEN Value(r.backtrace)
                          ELSE Raise(r.err, <<>>)

\* C11, witness: strip returned bytes that differ from the library it was
\* given, read from the output file.
C11_Witness ==
    /\ Done("strip") /\ ret.kind = "value"
    /\ ret.val # op.library
    /\ ret.val = proc.output

\* the steps of one compile, in the order of the source
CompileStages ==
    <<"dump_ir", "lower", "verify", "dump_unopt", "optimize", "dump_opt",
      "dump_asm", "emit">>

\* the step at which the backend fails on module m: the assembly is emitted
\* for the assembly dump when ARTIQ_DUMP_ASM is set, else for the object
FailingStage(m) ==
    CASE m.fail = "lower" -> "lower"
      [] m.fail \in {"parse", "verify"} -> "verify"
      [] m.fail = "optimize" -> "optimize"
      [] m.fail = "emit" ->
           IF getenv("ARTIQ_DUMP_ASM").set THEN "dump_asm" ELSE "emit"
      [] OTHER -> "none"

\* C12: compile is linear and never retries.  The steps taken are always a
\* prefix of: lower, parse and verify, unoptimized dump, optimize, optimized
\* dump, assembly dump, object emission (after the pre-lowering dump), so each
\* runs at most once and in that order; the first step that fails is the last
\* one taken and the call raises; an object is returned only when all steps
\* ran, verification and optimization exactly once.
C12_LinearCompile ==
    op.name = "compile" =>
        /\ Len(stages) <= Len(CompileStages)
        /\ stages = SubSeq(CompileStages, 1, Len(stages))
        /\ pc # "done" =>
              /\ ret = NoReturn
              /\ pc = CompileStages[Len(stages) + 1]
              /\ FailingStage(op.modules[1]) \notin StageSet
        /\ (pc = "done" /\ ret.kind = "raise") =>
              /\ stages[Len(stages)] = FailingStage(op.modules[1])
              /\ ret = Raise("RuntimeError", <<>>)
        /\ (pc = "done" /\ ret.kind = "value") =>
              /\ stages = CompileStages
              /\ FailingStage(op.modules[1]) = "none"
              /\ ret.val = ObjectBytes(op.modules[1])
        /\ pc = "done" => ret.kind \in {"raise", "value"}

\* C12, witness: a compile was aborted by a failure of the optimizer, after
\* verification succeeded and before the optimized dump.
C12_Witness ==
    /\ Done("compile") /\ ret.kind = "raise"
    /\ stages = <<"dump_ir", "lower", "verify", "dump_unopt", "optimize">>

\* the file names of the records of one query's answer
FileSeqs == UNION {[1..(n + 1) -> FileKinds] : n \in 0..MaxInline}

\* the resolver's output read back as records: for each query of qs, in
\* order, the file names of its records (the first one under an address line)
RECURSIVE ShapeOf(_, _)
ShapeOf(lines, qs) ==
    IF qs = <<>> THEN <<>>
    ELSE LET fits(fs) ==
                 LET n == 1 + 2 * Len(fs)
                 IN  /\ Len(lines) >= n
                     /\ SubSeq(lines, 1, n) = QueryAnswer(Head(qs), fs)
                     /\ (Len(lines) = n \/ Take(lines[n + 1], 2) = S_0x)
             fs == CHOOSE fs \in FileSeqs : fits(fs)
         IN  <<fs>> \o ShapeOf(Drop(lines, 1 + 2 * Len(fs)), Tail(qs))

\* the records of a file name other than "??" and "<synthesized>", in the
\* order the resolver printed them: query k, record j of that query
RECURSIVE KeptRecords(_, _, _)
KeptRecords(shape, k, j) ==
    IF k > Len(shape) THEN <<>>
    ELSE IF j > Len(shape[k]) THEN KeptRecords(shape, k + 1, 1)
    ELSE (IF shape[k][j] \in {S_unknown, S_synthesized} THEN <<>>
          ELSE <<[query |-> k, record |-> j, file |-> shape[k][j]]>>)
         \o KeptRecords(shape, k, j + 1)

\* what the resolver printed in this call, as lines and as records
OutputLines == split(rstrip(proc.stdout), "\n")
Queries == [i \in 1..Len(op.addresses) |-> op.addresses[i] - 1]
Shape == ShapeOf(OutputLines, Queries)
Kept == KeptRecords(Shape, 1, 1)
Symbolized == op.name = "symbolize" /\ ToolExited /\ proc.returncode = 0

\* C13: for a non-empty address list symbolize spawns the resolver exactly
\* once, with the options --addresses --functions --inlines --exe=<library
\* file> followed by hex(a - 1) for every address a in the order given; and a
\* backtrace it returns has one frame per record the resolver printed with a
\* known file, in the order of the records (so in the order of the queries),
\* each with that record's file, line and function.
C13_OneSpawnInQueryOrder ==
    /\ (op.name = "symbolize" /\ op.addresses # <<>> /\ proc.state # "none") =>
          /\ Len(spawned) = 1
          /\ Len(spawned[1]) = 5 + Len(op.addresses)
          /\ SubSeq(spawned[1], 1, 4) =
                <<Triple \o S_addr2line, S_addresses, S_functions, S_inlines>>
          /\ \A i \in 1..Len(op.addresses) :
                /\ spawned[1][5 + i] = S_0x \o DigitsOf(op.addresses[i] - 1, 16)
                /\ QueryOf(spawned[1][5 + i]) + 1 = op.addresses[i]
    /\ (Symbolized /\ pc = "done" /\ ret.kind = "value") =>
          /\ Len(ret.val) = Len(Kept)
          /\ \A i \in 1..Len(Kept) :
                SubSeq(ret.val[i], 1, 4) =
                    <<Kept[i].file, 10 + Kept[i].record, -1, FnName(Kept[i].record)>>
          /\ \A i, j \in 1..Len(Kept) : i < j => Kept[i].query <= Kept[j].query

\* C13, witness: symbolize([27, 1]) spawned the resolver with 0x1a and 0x0
\* and returned three frames: two for the first query, then one for the
\* second.
C13_Witness ==
    /\ Done("symbolize") /\ op.addresses = <<27, 1>>
    /\ SubSeq(spawned[1], 6, 7) = <<<<"0", "x", "1", "a">>, <<"0", "x", "0">>>>
    /\ Resolved(QueryAnswer(26, <<KnownFile, KnownFile>>)
                \o QueryAnswer(0, <<KnownFile>>))
    /\ ret.kind = "value"
    /\ [i \in 1..Len(ret.val) |-> ret.val[i][4]] = <<FnName(1), FnName(2), FnName(1)>>
    /\ [i \in 1..Len(ret.val) |-> ret.val[i][5]] = <<27, 27, 1>>

\* C14, as claimed: every frame of a returned backtrace has the address of
\* the query its record belongs to, that is the address of the last record
\* before it that had a 0x line (plus the offset), also when that record was
\* discarded; an address-less record never takes the address of a frame of
\* an earlier query.
C14_InlinedTakeTheirQuerysAddress ==
    (Symbolized /\ pc = "done" /\ ret.kind = "value" /\ Len(ret.val) = Len(Kept)) =>
        \A i \in 1..Len(Kept) : ret.val[i][5] = op.addresses[Kept[i].query]

\* C18, as claimed: whenever the resolver exits with status zero and prints a
\* well-formed output (for each query an address line and one or more records
\* of a function line and a path:line line), symbolize reads all of it and
\* returns a backtrace, one frame per record with a known file, without
\* raising; also when the first record's file is unknown and address-less
\* records follow it.
C18_WellFormedOutputNeverRaises ==
    (Symbolized /\ pc = "done") =>
        /\ ret.kind = "value"
        /\ Len(ret.val) = Len(Kept)

\* the four flag-gated dumps of compile for module m
CompileDumps(m) ==
    {[flag |-> "ARTIQ_DUMP_IR", kind |-> "ARTIQ IR", suffix |-> S_txt,
      text |-> ArtiqIrText(m)],
     [flag |-> "ARTIQ_DUMP_UNOPT_LLVM", kind |-> "LLVM IR (generated)",
      suffix |-> S_unopt_ll, text |-> LlvmIrText(m)],
     [flag |-> "ARTIQ_DUMP_LLVM", kind |-> "LLVM IR (optimized)", suffix |-> S_ll,
      text |-> OptimizedText(m)],
     [flag |-> "ARTIQ_DUMP_ASM", kind |-> "Assembly", suffix |-> S_s,
      text |-> AssemblyText(m)]}

\* C15: a compile that succeeds has written each of the four flag-gated
\* dumps exactly when its own flag is set, whatever the other flags are, with
\* the content of its producer: to a kept temporary file of a name no other
\* artifact has, ending in the suffix, when the flag is the empty string, and
\* to prefix+suffix otherwise; no other artifact is written.  A producer is
\* not invoked when its flag is unset: on a module whose assembly cannot be
\* emitted, compile with ARTIQ_DUMP_ASM unset gets past the assembly dump and
\* fails only at object emission.
C15_DumpsFollowTheirFlags ==
    /\ (Done("compile") /\ ret.kind = "value") =>
          /\ \A d \in CompileDumps(op.modules[1]) :
                /\ Cardinality(DumpsOfKind(d.kind)) =
                      (IF getenv(d.flag).set THEN 1 ELSE 0)
                /\ \A i \in DumpsOfKind(d.kind) :
                      /\ dumps[i].content = d.text
                      /\ EndsWith(dumps[i].name, d.suffix)
                      /\ \A j \in 1..Len(dumps) :
                            j # i => dumps[j].name # dumps[i].name
                      /\ IF getenv(d.flag).val = EmptyStr
                         THEN /\ dumps[i].temporary
                              /\ Take(dumps[i].name, Len(S_tmp)) = S_tmp
                         ELSE /\ ~dumps[i].temporary
                              /\ dumps[i].name = getenv(d.flag).val \o d.suffix
          /\ Len(dumps) = Cardinality({f \in CompileFlags : getenv(f).set})
    /\ (Done("compile") /\ op.modules[1].fail = "emit"
         /\ ~getenv("ARTIQ_DUMP_ASM").set) =>
          /\ stages[Len(stages)] = "emit"
          /\ "Assembly" \notin DumpKinds

\* C15, witness: a compile succeeded with ARTIQ_DUMP_IR unset, the
\* unoptimized dump sent to a temporary file and the optimized dump to a
\* prefix, and wrote those two and the assembly.
C15_Witness ==
    /\ Done("compile") /\ ret.kind = "value"
    /\ ~getenv("ARTIQ_DUMP_IR").set
    /\ getenv("ARTIQ_DUMP_UNOPT_LLVM") = SetTo(EmptyStr)
    /\ getenv("ARTIQ_DUMP_LLVM") = SetTo(DumpPrefix)
    /\ getenv("ARTIQ_DUMP_ASM") = SetTo(EmptyStr)
    /\ DumpKinds = {"LLVM IR (generated)", "LLVM IR (optimized)", "Assembly"}

CompilesStarted == Cardinality({k \in 1..Len(stages) : stages[k] = "dump_ir"})

\* the modules of the list the backend fails on
FailingModules == {i \in 1..Len(op.modules) : op.modules[i].fail # "none"}

\* C17: compile_and_link compiles the modules one at a time in list order,
\* and queries the entry point and spawns the linker only after all of them
\* compiled.  When the compile of modules[i] fails the call raises with
\* exactly the modules before i compiled: no later module is compiled, the
\* entry point is not queried, no temporary file is made, no linker is
\* spawned and no library is returned.
C17_CompileAllThenLink ==
    op.name = "compile_and_link" =>
        /\ Len(objects) <= Len(op.modules)
        /\ objects = [i \in 1..Len(objects) |-> ObjectBytes(op.modules[i])]
        /\ \A i \in 1..Len(objects) : i \notin FailingModules
        /\ CompilesStarted \in {Len(objects), Len(objects) + 1}
        /\ ("entry_point" \in StageSet \/ spawned # <<>> \/ files # <<>>
            \/ init_fn # <<>> \/ ret.kind = "value") =>
              /\ Len(objects) = Len(op.modules)
              /\ CompilesStarted = Len(op.modules)
              /\ FailingModules = {}
        /\ (pc = "done" /\ FailingModules # {}) =>
              /\ ret = Raise("RuntimeError", <<>>)
              /\ Len(objects) + 1 \in FailingModules
              /\ CompilesStarted = Len(objects) + 1
              /\ "entry_point" \notin StageSet
              /\ spawned = <<>>
              /\ proc.state = "none"

\* C17, witness: the second of two modules failed to compile after the first
\* had compiled, and the call raised without a linker being spawned.
C17_Witness ==
    /\ Done("compile_and_link") /\ Len(op.modules) = 2
    /\ FailingModules = {2}
    /\ Len(objects) = 1
    /\ ret.kind = "raise"
    /\ spawned = <<>>

============================================================================
